---- MODULE Spec2Model ----
(***************************************************************************)
(* Model of the Blockchain class of src/src/blockchain.js: the chain       *)
(* array, its height, the promise-based operations and the microtask       *)
(* queue on which the continuations of their awaits run.                   *)
(*                                                                         *)
(* The Block class (./block.js) is required by blockchain.js but its       *)
(* source is not part of the tree; Block, validate and getBData follow     *)
(* the Block section of the specification.                                 *)
(***************************************************************************)
EXTENDS Integers, Sequences, FiniteSets, TLC

\* ---------------------------------------------------------------- bounds
MaxCalls == 2          \* submitStar / validateChain calls issued by clients
MaxTicks == 3          \* steps of the wall clock
MaxTamper == 1         \* out-of-band writes to stored blocks (SpecTamper)
EpochMs == 1000500     \* wall clock (ms) when the Blockchain is constructed

\* ------------------------------------------------------- program constants
fiveMinutesInSeconds == 300

Addresses == {"addrA", "addrB"}
Stars == {"Genesis Block"}
ProtocolTag == "starRegistry"

\* ------------------------------------------------ strings of decimal digits
RECURSIVE ToDigits(_)
\* Number.prototype.toString() of a non-negative integer
ToDigits(n) == IF n < 10 THEN <<n>> ELSE Append(ToDigits(n \div 10), n % 10)

\* String.prototype.slice(0, -3)
SliceOffLast3(s) == IF Len(s) <= 3 THEN <<>> ELSE SubSeq(s, 1, Len(s) - 3)

RECURSIVE ParseDigits(_, _)
ParseDigits(s, acc) ==
    IF s = <<>> THEN acc ELSE ParseDigits(Tail(s), 10 * acc + Head(s))

\* parseInt of a non-empty string of decimal digits (every time string the
\* program produces is one: the clock is past 1000 ms)
parseInt(s) == ParseDigits(s, 0)

\* new Date().getTime().toString().slice(0, -3)
getCurrentTimeString(ms) == SliceOffLast3(ToDigits(ms))

\* ------------------------------------------------------------------ Block
NullHash == <<"null">>

\* the keys of a payload object, in the order the object literals list them
KeyOrder == <<"data", "owner", "star">>

\* Buffer.from(JSON.stringify(data)).toString('hex'): the key/value pairs of
\* the object, in key order, as one byte string
EncodeData(d) ==
    LET keys == SelectSeq(KeyOrder, LAMBDA k : k \in DOMAIN d)
    IN  [i \in 1..Len(keys) |-> <<keys[i], d[keys[i]]>>]

\* new BlockClass.Block(data)
Block(data) ==
    [hash |-> NullHash, height |-> 0, body |-> EncodeData(data),
     time |-> <<>>, previousBlockHash |-> NullHash]

\* {data: 'Genesis Block'}
GenesisData == [data |-> "Genesis Block"]

\* {owner: address, star}
ClaimData(address, star) == [owner |-> address, star |-> star]

\* JSON.stringify(block): the own fields in construction order
JSONstringify(b) == <<b.hash, b.height, b.body, b.time, b.previousBlockHash>>

\* a body that is an object referring to itself, as an out-of-band write can
\* leave it: JSON.stringify throws on it and it does not decode
CyclicBody == <<<<"cyclic", "cyclic">>>>

\* JSON.stringify(block) throws "Converting circular structure to JSON"
stringifyThrows(b) == b.body = CyclicBody

\* SHA256(text).toString(): collision free, so the digest stands for its input
SHA256(text) == <<"sha", text>>

\* block.validate(): recompute the content hash over the non-hash fields
validate(b) == b.hash = SHA256(JSONstringify([b EXCEPT !.hash = NullHash]))

\* ------------------------------------------------------------------ state
VARIABLES chain, height, nowMs, ticks, issued, calls, jobs, appender, tampered,
          query

vars == <<chain, height, nowMs, ticks, issued, calls, jobs, appender, tampered,
          query>>

\* chain     this.chain, the array of stored blocks (chain[i+1] is index i)
\* height    this.height
\* nowMs     new Date().getTime()
\* issued    the challenge message the client holds, as returned by
\*           requestMessageOwnershipVerification
\* calls     the client calls in call order: arguments, promise, the length
\*           of the chain when the call was made (seen), and whether the
\*           call still has a continuation queued (running)
\* jobs      the microtask queue: validateChain runs awaiting their next hop
\* appender  for each stored block, the call whose _addBlock pushed it
\*           (0 is the constructor's initializeChain)
\* ticks, tampered  count clock steps and out-of-band writes
\* query     the last query a client made and what its promise resolved with

\* ------------------------------------------------- bitcoinMessage.verify
MalformedSignature == <<"malformed">>
Sign(key, message) == <<"sig", key, message>>
\* the signatures a client may present for a message: made with either key,
\* or not decodable at all
Signatures(message) == {Sign(k, message) : k \in Addresses} \cup {MalformedSignature}

\* verify throws on a signature it cannot decode
verifyThrows(message, address, signature) == signature = MalformedSignature
verify(message, address, signature) == signature = Sign(address, message)

\* ------------------------------------------------------- promise outcomes
Pending == [state |-> "pending", reason |-> "", block |-> <<>>, errors |-> <<>>]
Resolved(b) == [state |-> "resolved", reason |-> "", block |-> <<b>>, errors |-> <<>>]
ResolvedList(e) == [state |-> "resolved", reason |-> "", block |-> <<>>, errors |-> e]
Rejected(r) == [state |-> "rejected", reason |-> r, block |-> <<>>, errors |-> <<>>]
RejectedList(e) == [state |-> "rejected", reason |-> "errors", block |-> <<>>, errors |-> e]

\* resolve(v) / reject(v) on a promise that may be settled already
Settle(p, outcome) == IF p.state = "pending" THEN outcome ELSE p

TooMuchTime == "Too much time has passed since the message was created"
CannotBeVerified == "message cannot be verified"
SubmitStarThrew == "submitStar threw an error"

\* -------------------------------------------------------------- queries
\* getBlockByHash: self.chain.filter(b => b.hash === hash)[0]
\* (<<>> is undefined, <<b>> is the block)
getBlockByHash(ch, hash) ==
    LET found == SelectSeq(ch, LAMBDA b : b.hash = hash)
    IN  IF found = <<>> THEN <<>> ELSE <<Head(found)>>

\* ---------------------------------------------------------- validateChain
\* a message only for a block that fails both checks
errorMessage_bothRequired(block, isBlockValid) ==
    LET hasPreviousBlock ==
            IF block.height > 0
            THEN getBlockByHash(chain, block.previousBlockHash) # <<>>
            ELSE TRUE
    IN  IF ~isBlockValid /\ ~hasPreviousBlock
        THEN <<[block |-> JSONstringify(block),
                notValid |-> ~isBlockValid,
                missingPrevious |-> ~hasPreviousBlock]>>
        ELSE <<>>

\* the message validateChain builds for one block (null is <<>>)
errorMessage(block, isBlockValid) ==
    LET hasPreviousBlock ==
            IF block.height > 0
            THEN getBlockByHash(chain, block.previousBlockHash) # <<>>
            ELSE TRUE
    IN  IF ~isBlockValid \/ ~hasPreviousBlock
        THEN <<[block |-> JSONstringify(block),
                notValid |-> ~isBlockValid,
                missingPrevious |-> ~hasPreviousBlock]>>
        ELSE <<>>

RECURSIVE Flatten(_)
Flatten(ss) == IF ss = <<>> THEN <<>> ELSE Head(ss) \o Flatten(Tail(ss))

\* self.chain.map(async block => ...) up to its first await: every block's
\* validate() is called at once; an empty chain has nothing to await
validateChainStart(call, kind, block) ==
    [call |-> call, kind |-> kind, block |-> block,
     stage |-> IF chain = <<>> THEN "resume" ELSE "lookup",
     selfValid |-> [i \in 1..Len(chain) |-> validate(chain[i])],
     errors |-> <<>>]

\* the rest of the map callbacks, then errorLog.filter(err => err !== null)
onlyErrors(job) ==
    Flatten([i \in 1..Len(job.selfValid) |-> errorMessage(chain[i], job.selfValid[i])])

\* the emptiness test written against 0
initializeChain_wrongGuard(h) ==
    IF h = 0
    THEN <<validateChainStart(0, "append", Block(GenesisData))>>
    ELSE <<>>

\* initializeChain(): on an empty chain, _addBlock(genesis) runs up to its
\* await of validateChain
initializeChain(h) ==
    IF h = -1
    THEN <<validateChainStart(0, "append", Block(GenesisData))>>
    ELSE <<>>

\* no query made yet
NoQuery == [op |-> "none", arg |-> <<>>, state |-> "none", result |-> <<>>]

\* ---------------------------------------------------------------- Init
\* constructor(): empty chain, height -1, and initializeChain() started, which
\* is inside _addBlock awaiting validateChain when the constructor returns
Init ==
    /\ chain = <<>>
    /\ height = -1
    /\ nowMs = EpochMs
    /\ ticks = 0
    /\ issued = {}
    /\ calls = <<>>
    /\ appender = <<>>
    /\ tampered = 0
    /\ query = NoQuery
    /\ jobs = initializeChain(height)

\* ------------------------------------------------------------- actions
\* the wall clock advances: first by one second less than the validity
\* window of a challenge, then second by second.  Queued continuations run within the second they were queued in.
ClockStepMs(k) == IF k = 0 THEN (fiveMinutesInSeconds - 1) * 1000 ELSE 1000

Tick ==
    /\ ticks < MaxTicks
    /\ jobs = <<>>
    /\ nowMs' = nowMs + ClockStepMs(ticks)
    /\ ticks' = ticks + 1
    /\ UNCHANGED <<chain, height, issued, calls, jobs, appender, tampered, query>>

\* `${address}:${new Date().getTime().toString().slice(0,-3)}:starRegistry`
challenge(address) == <<address, getCurrentTimeString(nowMs), ProtocolTag>>

\* the client asks for its challenge once and holds it
requestMessageOwnershipVerification ==
    /\ issued = {}
    /\ \E address \in Addresses : issued' = {challenge(address)}
    /\ UNCHANGED <<chain, height, nowMs, ticks, calls, jobs, appender, tampered, query>>

\* message.split(':')[1]
messageTimeOf(message) == parseInt(message[2])

isExpired_offByOne(currentTime, messageTime) ==
    currentTime - messageTime > fiveMinutesInSeconds

isExpired(currentTime, messageTime) ==
    currentTime - messageTime >= fiveMinutesInSeconds

\* submitStar up to the await inside _addBlock.  A reject does not leave the
\* executor: the code after it still runs, only a throw of verify does.
submitStar ==
    /\ Len(calls) < MaxCalls
    /\ \E address \in Addresses, message \in issued,
          star \in Stars :
       \E signature \in Signatures(message) :
        LET id == Len(calls) + 1
            messageTime == messageTimeOf(message)
            currentTime == parseInt(getCurrentTimeString(nowMs))
            p0 == Pending
            p1 == IF isExpired(currentTime, messageTime)
                  THEN Settle(p0, Rejected(TooMuchTime)) ELSE p0
            threw == verifyThrows(message, address, signature)
            isVerified == verify(message, address, signature)
            p2 == IF threw THEN Settle(p1, Rejected(SubmitStarThrew))
                  ELSE IF ~isVerified THEN Settle(p1, Rejected(CannotBeVerified))
                  ELSE p1
            call == [op |-> "submitStar", address |-> address,
                     message |-> message, signature |-> signature,
                     star |-> star,
                     elapsed |-> currentTime - messageTime,
                     seen |-> Len(chain),
                     promise |-> p2, running |-> ~threw]
        IN  /\ calls' = Append(calls, call)
            /\ jobs' = IF threw THEN jobs
                       ELSE Append(jobs, validateChainStart(id, "append",
                                           Block(ClaimData(address, star))))
    /\ UNCHANGED <<chain, height, nowMs, ticks, issued, appender, tampered, query>>

\* a client calls validateChain()
callValidateChain ==
    /\ Len(calls) < MaxCalls
    /\ calls' = Append(calls,
                  [op |-> "validateChain", address |-> "", message |-> <<>>,
                   signature |-> <<>>, star |-> "", elapsed |-> 0,
                   seen |-> Len(chain),
                   promise |-> Pending, running |-> TRUE])
    /\ jobs' = Append(jobs, validateChainStart(Len(calls) + 1, "validate",
                                               Block(GenesisData)))
    /\ UNCHANGED <<chain, height, nowMs, ticks, issued, appender, tampered, query>>

\* a map callback of the run throws while building its message: the block
\* is reported and JSON.stringify(block) throws
validateChainThrows(job) ==
    \E i \in 1..Len(job.selfValid) :
        /\ errorMessage(chain[i], job.selfValid[i]) # <<>>
        /\ stringifyThrows(chain[i])

\* the map callbacks of the oldest validateChain run resume after
\* `await block.validate()`, look up the previous blocks and the run collects
\* its errors.  When a callback throws, the catch block evaluates `reject`,
\* which the executor of validateChain does not declare: the ReferenceError
\* ends the executor, the promise of validateChain is never settled and
\* whoever awaits it (the client, or _addBlock) is never resumed.
validateChainLookups ==
    /\ jobs # <<>>
    /\ Head(jobs).stage = "lookup"
    /\ jobs' = IF validateChainThrows(Head(jobs))
               THEN Tail(jobs)
               ELSE Append(Tail(jobs),
                      [Head(jobs) EXCEPT !.stage = "resume",
                                         !.errors = onlyErrors(Head(jobs))])
    /\ UNCHANGED <<chain, height, nowMs, ticks, issued, calls, appender, tampered, query>>

\* a client's validateChain() promise resolves with the list
validateChainResolve ==
    /\ jobs # <<>>
    /\ Head(jobs).stage = "resume"
    /\ Head(jobs).kind = "validate"
    /\ LET c == Head(jobs).call
       IN  calls' = [calls EXCEPT ![c].promise = Settle(@, ResolvedList(Head(jobs).errors)),
                                  ![c].running = FALSE]
    /\ jobs' = Tail(jobs)
    /\ UNCHANGED <<chain, height, nowMs, ticks, issued, appender, tampered, query>>

incrementHeight_forgotten(h) == h

\* self.height += 1
incrementHeight(h) == h + 1

\* previousBlockHash taken from the block before the tail
sealBlock_linkOffByOne(block, ch, h, ms) ==
    LET b1 == IF h > 0
              THEN [block EXCEPT !.previousBlockHash = ch[h].hash]
              ELSE block
        b2 == [b1 EXCEPT !.time = getCurrentTimeString(ms)]
        b3 == [b2 EXCEPT !.height = incrementHeight(h)]
    IN  [b3 EXCEPT !.hash = SHA256(JSONstringify(b3))]

\* block.height assigned before self.height is incremented
sealBlock_heightBeforeIncrement(block, ch, h, ms) ==
    LET b1 == IF h > -1
              THEN [block EXCEPT !.previousBlockHash = ch[h + 1].hash]
              ELSE block
        b2 == [b1 EXCEPT !.time = getCurrentTimeString(ms)]
        b3 == [b2 EXCEPT !.height = h]
    IN  [b3 EXCEPT !.hash = SHA256(JSONstringify(b3))]

\* the hash computed before block.height is assigned
sealBlock_hashBeforeHeight(block, ch, h, ms) ==
    LET b1 == IF h > -1
              THEN [block EXCEPT !.previousBlockHash = ch[h + 1].hash]
              ELSE block
        b2 == [b1 EXCEPT !.time = getCurrentTimeString(ms)]
        b3 == [b2 EXCEPT !.hash = SHA256(JSONstringify(b2))]
    IN  [b3 EXCEPT !.height = incrementHeight(h)]

\* _addBlock lines 73-79: link, stamp, number and hash the block
\* (ch[h + 1] is self.chain[self.height])
sealBlock(block, ch, h, ms) ==
    LET b1 == IF h > -1
              THEN [block EXCEPT !.previousBlockHash = ch[h + 1].hash]
              ELSE block
        b2 == [b1 EXCEPT !.time = getCurrentTimeString(ms)]
        b3 == [b2 EXCEPT !.height = incrementHeight(h)]
    IN  [b3 EXCEPT !.hash = SHA256(JSONstringify(b3))]

\* whether _addBlock goes on to lines 73-81 once validateChain gave `errors`:
\* reject(errors) is not followed by a return
continuesAfterValidation(errors) == TRUE

\* the block put in front of the stored blocks
pushBlock_unshift(ch, block) == <<block>> \o ch

\* self.chain.push(block)
pushBlock(ch, block) == Append(ch, block)

\* _addBlock after `await this.validateChain()`
addBlock ==
    /\ jobs # <<>>
    /\ Head(jobs).stage = "resume"
    /\ Head(jobs).kind = "append"
    /\ LET job == Head(jobs)
           c == job.call
           errors == job.errors
           block == sealBlock(job.block, chain, height, nowMs)
           mutate == continuesAfterValidation(errors)
           added == IF Len(errors) > 0 THEN RejectedList(errors) ELSE Resolved(block)
       IN  /\ chain' = IF mutate THEN pushBlock(chain, block) ELSE chain
           /\ height' = IF mutate THEN incrementHeight(height) ELSE height
           /\ appender' = IF mutate THEN Append(appender, c) ELSE appender
           /\ calls' = IF c = 0 THEN calls
                       ELSE [calls EXCEPT ![c].promise = Settle(@, added),
                                          ![c].running = FALSE]
    /\ jobs' = Tail(jobs)
    /\ UNCHANGED <<nowMs, ticks, issued, tampered, query>>

\* an out-of-band write to one field of a stored block (the array and its
\* blocks are plain mutable objects): a new body (an object that cannot be
\* serialised), a new previousBlockHash, which is the hash of the block
\* itself or the hash of no block, or a new hash, which is the hash of no
\* block.  The write is made by a task of its own, so it finds the microtask
\* queue drained.
ForgedHash == <<"forged">>

Tamper ==
    /\ tampered < MaxTamper
    /\ jobs = <<>>
    /\ \E i \in 1..Len(chain) :
         \/ \E h \in {chain[i].hash, ForgedHash} :
               /\ h # chain[i].previousBlockHash
               /\ chain' = [chain EXCEPT ![i].previousBlockHash = h]
         \/ /\ chain[i].body # CyclicBody
            /\ chain' = [chain EXCEPT ![i].body = CyclicBody]
         \/ /\ chain[i].hash # ForgedHash
            /\ chain' = [chain EXCEPT ![i].hash = ForgedHash]
    /\ tampered' = tampered + 1
    /\ UNCHANGED <<height, nowMs, ticks, issued, calls, jobs, appender, query>>

\* ------------------------------------------------------------- queries
\* block.getBData(): the payload object decoded from the body
DecodeData(body) ==
    [k \in {body[i][1] : i \in 1..Len(body)} |->
        (CHOOSE i \in 1..Len(body) : body[i][1] = k) ]

getBData(b) ==
    LET keyAt == DecodeData(b.body)
    IN  [k \in DOMAIN keyAt |-> b.body[keyAt[k]][2]]

\* the body does not decode
getBDataFails(b) == b.body = CyclicBody

\* the height taken as a position counted from one
getBlockByHeight_countedFromOne(ch, h) ==
    LET found == SelectSeq(ch, LAMBDA p : p.height = h - 1)
    IN  IF found = <<>> THEN <<>> ELSE <<Head(found)>>

\* getBlockByHeight: self.chain.find(p => p.height === height)
getBlockByHeight(ch, h) ==
    LET found == SelectSeq(ch, LAMBDA p : p.height = h)
    IN  IF found = <<>> THEN <<>> ELSE <<Head(found)>>

\* the filter without the comparison with the address
ownerStars_anyOwner(blockData, address) ==
    SelectSeq(blockData, LAMBDA b : "owner" \in DOMAIN b)

\* blockData.filter(b => b.owner && b.owner === address)
ownerStars(blockData, address) ==
    SelectSeq(blockData, LAMBDA b : "owner" \in DOMAIN b /\ b.owner = address)

\* getStarsByWalletAddress on a chain whose bodies all decode
getStarsByWalletAddress(ch, address) ==
    ownerStars([i \in 1..Len(ch) |-> getBData(ch[i])], address)

\* a promise that resolved with `result`, or was left pending
QueryResolved(op, arg, result) ==
    [op |-> op, arg |-> <<arg>>, state |-> "resolved", result |-> result]
QueryPending(op, arg) ==
    [op |-> op, arg |-> <<arg>>, state |-> "pending", result |-> <<>>]

\* a query leaves everything else alone; the clients make one query in a
\* run, at any point of it (queries do not change what later steps see)
QueryFrame ==
    /\ query = NoQuery
    /\ UNCHANGED <<chain, height, nowMs, ticks, issued, calls, jobs,
                   appender, tampered>>

\* getChainHeight()
callGetChainHeight ==
    /\ QueryFrame
    /\ query' = QueryResolved("getChainHeight", 0, <<height>>)

\* the result of the filter assigned to the chain
callGetBlockByHash_keepsMatches ==
    /\ query = NoQuery
    /\ \E hash \in {chain[i].hash : i \in 1..Len(chain)} \cup {ForgedHash} :
         /\ query' = QueryResolved("getBlockByHash", hash, getBlockByHash(chain, hash))
         /\ chain' = SelectSeq(chain, LAMBDA p : p.hash = hash)
    /\ UNCHANGED <<height, nowMs, ticks, issued, calls, jobs, appender, tampered>>

\* getBlockByHash(hash), for the hash of a stored block or of none
callGetBlockByHash ==
    /\ QueryFrame
    /\ \E hash \in {chain[i].hash : i \in 1..Len(chain)} \cup {ForgedHash} :
          query' = QueryResolved("getBlockByHash", hash, getBlockByHash(chain, hash))

\* getBlockByHeight(height), up to one past the highest block the bounds allow
callGetBlockByHeight ==
    /\ QueryFrame
    /\ \E h \in 0..(MaxCalls + 1) :
          query' = QueryResolved("getBlockByHeight", h, getBlockByHeight(chain, h))

\* getStarsByWalletAddress(address): every getBData() is called in the map;
\* when one of them fails (it rejects, or it resolves with no object and the
\* filter callback reads .owner of it) the executor, which has no try/catch,
\* ends with the exception and the promise is never settled
callGetStarsByWalletAddress ==
    /\ QueryFrame
    /\ \E address \in Addresses :
          query' = IF \E i \in 1..Len(chain) : getBDataFails(chain[i])
                   THEN QueryPending("getStarsByWalletAddress", address)
                   ELSE QueryResolved("getStarsByWalletAddress", address,
                                      getStarsByWalletAddress(chain, address))

Next ==
    \/ Tick
    \/ requestMessageOwnershipVerification
    \/ submitStar
    \/ callValidateChain
    \/ validateChainLookups
    \/ validateChainResolve
    \/ addBlock

Spec == Init /\ [][Next]_vars

\* the same program with stored blocks open to out-of-band writes, over a
\* span in which the clock does not reach the next second
NextTamper ==
    \/ requestMessageOwnershipVerification
    \/ submitStar
    \/ callValidateChain
    \/ validateChainLookups
    \/ validateChainResolve
    \/ addBlock
    \/ Tamper

SpecTamper == Init /\ [][NextTamper]_vars

\* the program with the clients also making queries, over a span in which
\* the clock does not reach the next second
NextQuery ==
    \/ requestMessageOwnershipVerification
    \/ submitStar
    \/ callValidateChain
    \/ validateChainLookups
    \/ validateChainResolve
    \/ addBlock
    \/ callGetChainHeight
    \/ callGetBlockByHash
    \/ callGetBlockByHeight
    \/ callGetStarsByWalletAddress

SpecQuery == Init /\ [][NextQuery]_vars

\* out-of-band writes and owner queries together
NextTamperQuery ==
    \/ requestMessageOwnershipVerification
    \/ submitStar
    \/ validateChainLookups
    \/ addBlock
    \/ Tamper
    \/ callGetStarsByWalletAddress

SpecTamperQuery == Init /\ [][NextTamperQuery]_vars

\* ============================================================== properties
SubmitCalls == {c \in 1..Len(calls) : calls[c].op = "submitStar"}
ValidateCalls == {c \in 1..Len(calls) : calls[c].op = "validateChain"}

\* the call has run to completion: nothing of it is left on the queue
Completed(c) == ~calls[c].running

\* the indices of the stored blocks that call c pushed
AppendedBy(c) == {i \in 1..Len(appender) : appender[i] = c}

VerifyReturnsFalse(c) ==
    /\ ~verifyThrows(calls[c].message, calls[c].address, calls[c].signature)
    /\ ~verify(calls[c].message, calls[c].address, calls[c].signature)

VerifyReturnsTrue(c) ==
    /\ ~verifyThrows(calls[c].message, calls[c].address, calls[c].signature)
    /\ verify(calls[c].message, calls[c].address, calls[c].signature)

\* C1: a submitStar call whose signature verification returns false is
\* rejected with "message cannot be verified" and, once it has run to
\* completion, has added no block to the chain.
C1_InvalidSignatureLeavesChain ==
    \A c \in SubmitCalls :
        (Completed(c) /\ VerifyReturnsFalse(c)) =>
            /\ calls[c].promise = Rejected(CannotBeVerified)
            /\ AppendedBy(c) = {}

\* C2: a submitStar call whose message is 300 seconds old or older adds no
\* block to the chain, whatever its signature.
C2_ExpiredClaimAppendsNothing ==
    \A c \in SubmitCalls :
        (Completed(c) /\ calls[c].elapsed >= fiveMinutesInSeconds) =>
            AppendedBy(c) = {}

\* C3: with a verifying signature on a chain that validates, the promise of
\* submitStar resolves with the block the call appended when the message is
\* less than 300 seconds old, and rejects with "Too much time has passed
\* since the message was created" when it is 300 seconds old or older.
C3_OutcomeFollowsWindow ==
    \A c \in SubmitCalls :
        (Completed(c) /\ VerifyReturnsTrue(c)) =>
            IF calls[c].elapsed < fiveMinutesInSeconds
            THEN /\ calls[c].promise.state = "resolved"
                 /\ \E i \in AppendedBy(c) : calls[c].promise.block = <<chain[i]>>
            ELSE calls[c].promise = Rejected(TooMuchTime)

\* one verified claim settled at 299 seconds and one at 300 seconds
C3_Witness ==
    /\ \E c \in SubmitCalls :
          /\ Completed(c) /\ VerifyReturnsTrue(c)
          /\ calls[c].elapsed = fiveMinutesInSeconds - 1
          /\ calls[c].promise.state = "resolved"
    /\ \E c \in SubmitCalls :
          /\ Completed(c) /\ VerifyReturnsTrue(c)
          /\ calls[c].elapsed = fiveMinutesInSeconds
          /\ calls[c].promise.state = "rejected"

\* a verified claim settled at 301 seconds
C3_WitnessLate ==
    \E c \in SubmitCalls :
        /\ Completed(c) /\ VerifyReturnsTrue(c)
        /\ calls[c].elapsed = fiveMinutesInSeconds + 1
        /\ calls[c].promise = Rejected(TooMuchTime)


\* C4: an append whose validateChain run returned errors is rejected with
\* those errors and adds no block: a call rejected with an error list has
\* pushed nothing.
C4_InvalidChainRefusesAppend ==
    \A c \in SubmitCalls :
        (Completed(c) /\ calls[c].promise.state = "rejected"
                      /\ calls[c].promise.errors # <<>>) =>
            AppendedBy(c) = {}

\* C5: every stored block after the first has previousBlockHash equal to the
\* hash of the block stored before it, and no two stored blocks name the same
\* previous block.
C5_Linkage ==
    /\ \A i \in 2..Len(chain) : chain[i].previousBlockHash = chain[i - 1].hash
    /\ \A i, k \in 2..Len(chain) :
          i # k => chain[i].previousBlockHash # chain[k].previousBlockHash

\* two claims were submitted before the genesis block was stored, and all
\* three blocks are stored
C5_Witness ==
    /\ Len(chain) = 3
    /\ \E c, d \in SubmitCalls :
          /\ c # d
          /\ calls[c].seen = 0 /\ calls[d].seen = 0
          /\ AppendedBy(c) # {} /\ AppendedBy(d) # {}

C7_HeightInvariant ==
    /\ \A i \in 1..Len(chain) : chain[i].height = i - 1
    /\ \A i, k \in 1..Len(chain) : i # k => chain[i].height # chain[k].height

\* a claim validated a shorter chain than the one it was appended to
C7_Witness ==
    \E c \in SubmitCalls : \E i \in AppendedBy(c) :
        /\ calls[c].seen < i - 1
        /\ chain[i].height = i - 1
        /\ i = 3

\* C8: a non-empty chain starts with the genesis block (payload 'Genesis
\* Block', no previous hash, height 0), no other block has the genesis
\* payload, and once initializeChain is through and no claim was submitted
\* the chain has height 0 and one block.
GenesisBody == EncodeData(GenesisData)

InitializePending == \E k \in 1..Len(jobs) : jobs[k].call = 0

C8_Genesis ==
    /\ chain # <<>> =>
          /\ chain[1].body = GenesisBody
          /\ chain[1].previousBlockHash = NullHash
          /\ chain[1].height = 0
          /\ appender[1] = 0
    /\ \A i \in 2..Len(chain) : chain[i].body # GenesisBody
    /\ (~InitializePending /\ SubmitCalls = {}) => (height = 0 /\ Len(chain) = 1)

\* a claim submitted while initializeChain was still pending has been stored,
\* behind the genesis block
C8_Witness ==
    \E c \in SubmitCalls :
        /\ calls[c].seen = 0
        /\ AppendedBy(c) # {}
        /\ chain[1].body = GenesisBody

\* C9: on a chain built by the program's own appends, validateChain returns
\* the empty list: every run, a client's or _addBlock's, ends without errors
\* and every stored block passes validate() and finds its previous block.
C9_ValidateEmpty ==
    /\ \A c \in ValidateCalls : Completed(c) => calls[c].promise = ResolvedList(<<>>)
    /\ \A k \in 1..Len(jobs) : jobs[k].errors = <<>>
    /\ \A c \in SubmitCalls : calls[c].promise.errors = <<>>
    /\ \A i \in 1..Len(chain) : errorMessage(chain[i], validate(chain[i])) = <<>>

\* a client's validateChain on a chain with a claim block has resolved
C9_Witness ==
    \E c \in ValidateCalls :
        /\ Completed(c)
        /\ calls[c].seen >= 2
        /\ calls[c].promise.state = "resolved"

\* C10: when the map callbacks of a validateChain run do their lookups, every
\* block after the first whose previousBlockHash is not the hash of the block
\* before it is reported with "previous block is missing".
LookupStep ==
    /\ jobs # <<>>
    /\ Head(jobs).stage = "lookup"
    /\ Len(jobs') = Len(jobs)
    /\ jobs' # jobs

C10_BrokenLinkReported ==
    [][LookupStep =>
        \A i \in 2..Len(Head(jobs).selfValid) :
            chain[i].previousBlockHash # chain[i - 1].hash =>
                \E k \in 1..Len(jobs'[Len(jobs')].errors) :
                    /\ jobs'[Len(jobs')].errors[k].block = JSONstringify(chain[i])
                    /\ jobs'[Len(jobs')].errors[k].missingPrevious]_vars

\* a continuation of call c is on the microtask queue
InQueue(c) == \E k \in 1..Len(jobs) : jobs[k].call = c

\* C11: a validateChain call always settles by resolving with a list: once
\* nothing of the call is left on the queue, its promise is resolved, whatever
\* the stored blocks contain.
C11_ValidateChainSettles ==
    \A c \in ValidateCalls :
        ~InQueue(c) => calls[c].promise.state = "resolved"

\* a client makes its query in this step
QueryMade(op) == query.op = "none" /\ query'.op = op

\* the claims stored in the chain for an address, from the calls that
\* appended them: for each block a submitStar call with that address pushed,
\* in chain order, the object {owner, star} the call was made with
ClaimsOf(address) ==
    LET positions == SelectSeq([i \in 1..Len(chain) |-> i],
                        LAMBDA i : /\ appender[i] # 0
                                   /\ calls[appender[i]].address = address)
    IN  [k \in 1..Len(positions) |->
            ClaimData(address, calls[appender[positions[k]]].star)]

C12_WitnessEmpty ==
    /\ query.op = "getStarsByWalletAddress"
    /\ query.state = "resolved"
    /\ query.result = <<>>
    /\ Len(chain) >= 2

\* C13: getStarsByWalletAddress resolves also when the body of a stored block
\* does not decode; it is never left pending.
C13_DecodeFailureSwallowed ==
    query.op = "getStarsByWalletAddress" => query.state = "resolved"

\* the first stored block with that hash, if any
FirstWithHash(x) ==
    IF \E i \in 1..Len(chain) : chain[i].hash = x
    THEN <<chain[CHOOSE i \in 1..Len(chain) :
                    /\ chain[i].hash = x
                    /\ \A k \in 1..(i - 1) : chain[k].hash # x]>>
    ELSE <<>>

\* C14: getBlockByHeight(h) resolves with the block at index h when
\* 0 <= h <= height and with undefined when h is beyond the height;
\* getBlockByHash(x) resolves with the first block whose hash is x and with
\* undefined when there is none; both always resolve.
C14_Lookups ==
    [][/\ QueryMade("getBlockByHeight") =>
            /\ query'.state = "resolved"
            /\ query'.result = IF 0 <= query'.arg[1] /\ query'.arg[1] <= height
                               THEN <<chain[query'.arg[1] + 1]>>
                               ELSE <<>>
       /\ QueryMade("getBlockByHash") =>
            /\ query'.state = "resolved"
            /\ query'.result = FirstWithHash(query'.arg[1])]_vars

\* the block at height 1 was asked for by height and returned
C14_Witness ==
    /\ query.op = "getBlockByHeight"
    /\ query.arg = <<1>>
    /\ query.result # <<>>

\* a height beyond the chain was asked for and undefined returned
C14_WitnessBeyond ==
    /\ query.op = "getBlockByHeight"
    /\ query.arg[1] > height
    /\ query.result = <<>>
    /\ chain # <<>>

\* C15: the chain is append-only: every step leaves the stored blocks where
\* they were and with every field as it was when appended, so the chain
\* before a step is a prefix of the chain after it (and, steps composing, the
\* chain of any earlier state is a prefix of the chain of any later one).
C15_AppendOnly ==
    [][/\ Len(chain') >= Len(chain)
       /\ SubSeq(chain', 1, Len(chain)) = chain]_vars

\* two claims were appended after the genesis block
C15_Witness ==
    /\ Len(chain) = 3
    /\ appender[2] # 0
    /\ appender[3] # 0

\* the _addBlock invocations between the start of their validation and the
\* end of their mutation
AppendsInFlight == {k \in 1..Len(jobs) : jobs[k].kind = "append"}

\* C16: appends are serialized: at most one _addBlock invocation is in flight
\* at any moment, and every block a submitStar call appended went onto the
\* chain that call's validation had seen, no other append having completed
\* in between.
C16_AppendsSerialized ==
    /\ Cardinality(AppendsInFlight) <= 1
    /\ \A i \in 1..Len(chain) :
          appender[i] # 0 => calls[appender[i]].seen = i - 1

\* the two checks of validateChain on the stored block at position i
FailsSelfHash(i) == ~validate(chain[i])
FailsPreviousLookup(i) ==
    /\ chain[i].height > 0
    /\ \A j \in 1..Len(chain) : chain[j].hash # chain[i].previousBlockHash

\* the positions of the invalid blocks among the first n, in chain order
InvalidPositions(n) ==
    SelectSeq([i \in 1..n |-> i],
              LAMBDA i : FailsSelfHash(i) \/ FailsPreviousLookup(i))

\* C17: the list a validateChain run produces has one message per block that
\* fails the self-hash check or (height > 0) the previous-block lookup, none
\* for a block that passes both, in chain order, and each message names
\* exactly the checks its block failed; so its length is the number of
\* invalid blocks, 0 exactly when there is none.
C17_OneMessagePerInvalidBlock ==
    [][LookupStep =>
        LET errorLog == jobs'[Len(jobs')].errors
            invalid == InvalidPositions(Len(Head(jobs).selfValid))
        IN  /\ Len(errorLog) = Len(invalid)
            /\ \A k \in 1..Len(invalid) :
                  /\ errorLog[k].block = JSONstringify(chain[invalid[k]])
                  /\ errorLog[k].notValid = FailsSelfHash(invalid[k])
                  /\ errorLog[k].missingPrevious = FailsPreviousLookup(invalid[k])]_vars

\* a validateChain call resolved with two messages: the first block fails
\* only the self-hash check, the second only the previous-block lookup
C17_Witness ==
    \E c \in ValidateCalls :
        /\ calls[c].promise.state = "resolved"
        /\ Len(calls[c].promise.errors) = 2
        /\ calls[c].promise.errors[1].notValid
        /\ ~calls[c].promise.errors[1].missingPrevious
        /\ ~calls[c].promise.errors[2].notValid
        /\ calls[c].promise.errors[2].missingPrevious

\* a validateChain call resolved with one message that names both checks
C17_WitnessBoth ==
    \E c \in ValidateCalls :
        /\ calls[c].promise.state = "resolved"
        /\ Len(calls[c].promise.errors) = 1
        /\ calls[c].promise.errors[1].notValid
        /\ calls[c].promise.errors[1].missingPrevious

\* C18: a submitStar call appends at most one block and appends one exactly
\* when it resolves: a resolved call returns the block it stored, which has
\* the caller's address as owner, the height of the block before it plus one
\* and that block's hash as previousBlockHash; a rejected call has appended
\* nothing.
C18_AppendsExactlyWhenResolved ==
    \A c \in SubmitCalls :
        Completed(c) =>
            /\ Cardinality(AppendedBy(c)) <= 1
            /\ calls[c].promise.state = "resolved" <=> AppendedBy(c) # {}
            /\ calls[c].promise.state = "rejected" => AppendedBy(c) = {}
            /\ calls[c].promise.state = "resolved" =>
                  \A i \in AppendedBy(c) :
                      /\ calls[c].promise.block = <<chain[i]>>
                      /\ chain[i].body = EncodeData(ClaimData(calls[c].address, calls[c].star))
                      /\ i > 1 => /\ chain[i].height = chain[i - 1].height + 1
                                  /\ chain[i].previousBlockHash = chain[i - 1].hash

\* a step of one of the read-only operations: a challenge is issued, a query
\* is made, validateChain is called by a client, or a validateChain run
\* (a client's, or the one an append awaits) goes on or returns
ReadOnlyStep ==
    \/ issued' # issued
    \/ query.op = "none" /\ query'.op # "none"
    \/ /\ Len(calls') = Len(calls) + 1
       /\ calls'[Len(calls')].op = "validateChain"
    \/ /\ jobs # <<>>
       /\ Head(jobs).stage = "lookup"
       /\ jobs' # jobs
       /\ Len(jobs') <= Len(jobs)
    \/ /\ jobs # <<>>
       /\ Head(jobs).stage = "resume"
       /\ Head(jobs).kind = "validate"
       /\ jobs' = Tail(jobs)

\* C19: requestMessageOwnershipVerification, getChainHeight, getBlockByHash,
\* getBlockByHeight, getStarsByWalletAddress and validateChain leave the
\* chain, every stored block and the height unchanged.
C19_ReadOnlyFrame ==
    [][ReadOnlyStep => /\ chain' = chain
                       /\ height' = height]_vars

\* a challenge was issued, validateChain was called and returned and a query
\* was answered on a chain that holds a claim
C19_Witness ==
    /\ issued # {}
    /\ query.state = "resolved"
    /\ Len(chain) >= 2
    /\ \E c \in ValidateCalls : calls[c].promise.state = "resolved"

\* C20: every submitStar call settles: once no continuation of the call is
\* left on the microtask queue, so that nothing will run for it any more, its
\* promise is resolved or rejected, also when validating a stored block
\* raised an exception.
C20_SubmitStarSettles ==
    \A c \in SubmitCalls :
        ~InQueue(c) => calls[c].promise.state # "pending"

====
